---------------------------- MODULE Spec2Model ----------------------------
(***************************************************************************)
(* client-sqlite: the four procedures db.query, db.execute, logs.store and *)
(* logs.query of src/src/register.ts, over the SQLite databases they open. *)
(*                                                                         *)
(* Encodings.  An optional JavaScript value (a field that may be undefined)*)
(* and a nullable SQL column are sequences of length at most one: <<>> is  *)
(* undefined / NULL and <<v>> is the value v.  SQL text is a sequence of   *)
(* string tokens; JSON text is a sequence of token records.                *)
(***************************************************************************)
EXTENDS Integers, Sequences, FiniteSets, TLC

None == <<>>
Some(v) == <<v>>
IsSome(o) == Len(o) > 0
Get(o) == o[1]

\* a ?? b
OrElse(a, b) == IF IsSome(a) THEN Get(a) ELSE b

(***************************************************************************)
(* Bounds of the model.                                                    *)
(***************************************************************************)
\* rows ever inserted into one database (the AUTOINCREMENT counter's cap)
MaxRows == 3
\* readings of the wall clock datetime('now') can return
MaxTime == 3
\* explicit calls of registerSqliteProcedures after the module has loaded
MaxRegistrations == 2

(***************************************************************************)
(* types.js                                                                *)
(***************************************************************************)
DEFAULT_DB_PATH == "~/logs/cli/cli.db"

LOG_LEVELS == <<"trace", "debug", "info", "warn", "error">>

\* Array.prototype.includes
Includes(arr, v) == \E i \in 1..Len(arr) : arr[i] = v

(***************************************************************************)
(* Decimal text of a number, as a template literal `${n}` renders it, and  *)
(* the engine's reading of it.                                             *)
(***************************************************************************)
Digits == <<"0", "1", "2", "3", "4", "5", "6", "7", "8", "9">>

NumText(n) == Digits[n + 1]

IsNumText(s) == \E n \in 0..9 : Digits[n + 1] = s

TextNum(s) == CHOOSE n \in 0..9 : Digits[n + 1] = s

(***************************************************************************)
(* JSON.stringify and JSON.parse on a flat mapping.  A mapping is the      *)
(* sequence of its <<key, value>> members in insertion order (keys         *)
(* distinct); a value is a number [t |-> "num", v |-> "1"] or a string     *)
(* [t |-> "str", v |-> "x"].  JSON text is a sequence of tokens            *)
(* [k |-> "punct" | "str" | "num", s |-> text].                            *)
(***************************************************************************)
Punct(s) == [k |-> "punct", s |-> s]

JsonNum(n) == [t |-> "num", v |-> NumText(n)]
JsonStr(s) == [t |-> "str", v |-> s]

ValueToken(v) == [k |-> v.t, s |-> v.v]

RECURSIVE StringifyMembers(_, _)
StringifyMembers(m, i) ==
    IF i > Len(m) THEN <<>>
    ELSE (IF i > 1 THEN <<Punct(",")>> ELSE <<>>)
         \o <<[k |-> "str", s |-> m[i][1]], Punct(":"), ValueToken(m[i][2])>>
         \o StringifyMembers(m, i + 1)

JSON_stringify(m) == <<Punct("{")>> \o StringifyMembers(m, 1) \o <<Punct("}")>>

\* the members of the object text toks, read from token i on
RECURSIVE ParseMembers(_, _, _)
ParseMembers(toks, i, acc) ==
    IF i + 2 > Len(toks) THEN acc
    ELSE LET member == <<toks[i].s, [t |-> toks[i + 2].k, v |-> toks[i + 2].s]>>
         IN  ParseMembers(toks, i + 4, Append(acc, member))

JSON_parse(toks) == ParseMembers(toks, 2, <<>>)



(***************************************************************************)
(* SQL text.  A statement is a sequence of string tokens; Join is          *)
(* Array.prototype.join on token sequences.                                *)
(***************************************************************************)
RECURSIVE Join(_, _)
Join(parts, sep) ==
    IF Len(parts) = 0 THEN <<>>
    ELSE IF Len(parts) = 1 THEN parts[1]
    ELSE parts[1] \o <<sep>> \o Join(Tail(parts), sep)

\* the first position from `from` on that holds token t, 0 when there is none
IndexOf(toks, t, from) ==
    IF \E i \in from..Len(toks) : toks[i] = t
    THEN CHOOSE i \in from..Len(toks) :
             toks[i] = t /\ \A j \in from..(i - 1) : toks[j] # t
    ELSE 0

\* the pieces of toks between the tokens equal to sep (none for no tokens)
RECURSIVE SplitBy(_, _)
SplitBy(toks, sep) ==
    IF Len(toks) = 0 THEN <<>>
    ELSE LET p == IndexOf(toks, sep, 1)
         IN  IF p = 0 THEN <<toks>>
             ELSE <<SubSeq(toks, 1, p - 1)>>
                  \o (IF p = Len(toks) THEN <<(<<>>)>>
                      ELSE SplitBy(SubSeq(toks, p + 1, Len(toks)), sep))

CountOf(toks, t) == Cardinality({i \in 1..Len(toks) : toks[i] = t})

(***************************************************************************)
(* The logs table of LOG_MIGRATIONS.  A row is a record over LOGS_COLUMNS: *)
(* id is a number, every other column a nullable SQL value.                *)
(***************************************************************************)
LOGS_COLUMNS ==
    <<"id", "timestamp", "level", "message", "data", "session_id", "command",
      "context", "error_stack", "created_at">>

NOT_NULL_COLUMNS == {"timestamp", "level", "message", "created_at"}


\* LEVEL_CHECK with the lowest severity left out of the constraint
LEVEL_CHECK_NoTrace == {"debug", "info", "warn", "error"}

\* CHECK (level IN ('trace', 'debug', 'info', 'warn', 'error'))
LEVEL_CHECK == {"trace", "debug", "info", "warn", "error"}


\* CREATE_LOGS without its IF NOT EXISTS guard
CREATE_LOGS_Unguarded == <<"CREATE TABLE", "logs", "(", "level CHECK", ")">>

\* CREATE TABLE IF NOT EXISTS logs (...): of the column definitions the text
\* keeps the one of level, with its CHECK constraint
CREATE_LOGS == <<"CREATE TABLE IF NOT EXISTS", "logs", "(", "level CHECK", ")">>

LOG_MIGRATIONS == <<[version |-> 1, up |-> CREATE_LOGS]>>

\* a database file: whether the logs table exists, whether it carries the
\* CHECK constraint on level, its rows in rowid order, and the AUTOINCREMENT
\* counter (the largest id ever assigned)
EmptyDb == [hasLogs |-> FALSE, levelCheck |-> FALSE, rows |-> <<>>, seq |-> 0]

(***************************************************************************)
(* The WHERE clause of a statement: conditions joined by AND, each         *)
(* `col = ?` or `col IN (?, ?, ...)`, binding params in order of           *)
(* appearance.                                                             *)
(***************************************************************************)
CondOk(c) ==
    /\ Len(c) >= 3
    /\ Includes(LOGS_COLUMNS, c[1])
    /\ c[1] # "id"
    /\ \/ c = <<c[1], "=", "?">>
       \/ /\ c[2] = "IN" /\ c[3] = "(" /\ c[Len(c)] = ")" /\ Len(c) >= 4
          /\ LET inner == SubSeq(c, 4, Len(c) - 1)
             IN  \A i \in 1..Len(inner) :
                     inner[i] = (IF i % 2 = 1 THEN "?" ELSE ",")
          /\ (Len(c) = 4 \/ Len(c) % 2 = 1)

WhereOk(toks) ==
    LET conds == SplitBy(toks, "AND")
    IN  Len(conds) > 0 /\ \A k \in 1..Len(conds) : CondOk(conds[k])

\* the params condition k binds: those after the placeholders of conditions 1..k-1
CondParams(conds, params, k) ==
    LET before == CountOf(Join(SubSeq(conds, 1, k - 1), "AND"), "?")
        mine == CountOf(conds[k], "?")
    IN  SubSeq(params, before + 1, before + mine)

\* NULL compares equal to nothing, and nothing to NULL
RowMatches(row, toks, params) ==
    LET conds == SplitBy(toks, "AND")
    IN  \A k \in 1..Len(conds) :
            LET bound == CondParams(conds, params, k)
            IN  /\ IsSome(row[conds[k][1]])
                /\ \E i \in 1..Len(bound) : bound[i] = row[conds[k][1]]

(***************************************************************************)
(* query(db, sql, params) of the engine on a SELECT:                       *)
(*   SELECT cols FROM t [WHERE ...] [ORDER BY col dir] [LIMIT n [OFFSET m]]*)
(* SQLite's grammar has OFFSET only inside a LIMIT clause.                 *)
(***************************************************************************)
ClauseStarts(toks) ==
    <<IndexOf(toks, "FROM", 1), IndexOf(toks, "WHERE", 1),
      IndexOf(toks, "ORDER BY", 1), IndexOf(toks, "LIMIT", 1),
      IndexOf(toks, "OFFSET", 1)>>

\* the tokens of clause k (1 FROM, 2 WHERE, 3 ORDER BY, 4 LIMIT, 5 OFFSET)
\* after its keyword, up to the next clause
ClauseBody(toks, k) ==
    LET starts == ClauseStarts(toks)
        later == {starts[j] : j \in (k + 1)..5} \ {0}
        stop == IF later = {} THEN Len(toks) + 1
                ELSE CHOOSE x \in later : \A y \in later : x <= y
    IN  SubSeq(toks, starts[k] + 1, stop - 1)

ColumnListOk(toks) ==
    \/ toks = <<"*">>
    \/ /\ Len(toks) % 2 = 1
       /\ \A i \in 1..Len(toks) :
              IF i % 2 = 1 THEN Includes(LOGS_COLUMNS, toks[i]) ELSE toks[i] = ","

SelectColumns(toks) ==
    LET list == SubSeq(toks, 2, IndexOf(toks, "FROM", 1) - 1)
    IN  IF list = <<"*">> THEN LOGS_COLUMNS
        ELSE [i \in 1..((Len(list) + 1) \div 2) |-> list[2 * i - 1]]

SelectSyntaxOk(toks) ==
    LET starts == ClauseStarts(toks)
    IN  /\ Len(toks) >= 4
        /\ toks[1] = "SELECT"
        /\ starts[1] >= 3
        /\ ColumnListOk(SubSeq(toks, 2, starts[1] - 1))
        /\ \A j, k \in 1..5 :
               (j < k /\ starts[j] # 0 /\ starts[k] # 0) => starts[j] < starts[k]
        /\ Len(ClauseBody(toks, 1)) = 1
        /\ starts[2] # 0 => WhereOk(ClauseBody(toks, 2))
        /\ starts[3] # 0 =>
               LET body == ClauseBody(toks, 3)
               IN  /\ Len(body) = 2
                   /\ Includes(LOGS_COLUMNS, body[1])
                   /\ body[2] \in {"ASC", "DESC"}
        /\ starts[4] # 0 =>
               LET body == ClauseBody(toks, 4)
               IN  Len(body) = 1 /\ IsNumText(body[1])
        /\ starts[5] # 0 =>
               LET body == ClauseBody(toks, 5)
               IN  starts[4] # 0 /\ Len(body) = 1 /\ IsNumText(body[1])

\* the orders in which the rows at positions S may come back: every
\* arrangement that is sorted on the ORDER BY column (SQL leaves the order
\* of rows with equal keys, and of an unordered SELECT, to the engine)
Arrangements(rows, S, toks) ==
    LET starts == ClauseStarts(toks)
        k == Cardinality(S)
        key(i) == Get(rows[i][ClauseBody(toks, 3)[1]])
        asc == ClauseBody(toks, 3)[2] = "ASC"
    IN  {f \in [1..k -> S] :
            /\ \A a, b \in 1..k : a # b => f[a] # f[b]
            /\ starts[3] # 0 =>
                   \A a \in 1..(k - 1) :
                       IF asc THEN key(f[a]) <= key(f[a + 1])
                       ELSE key(f[a]) >= key(f[a + 1])}

Min(a, b) == IF a <= b THEN a ELSE b

\* LIMIT n OFFSET m: skip m rows, then keep n
Page(order, toks) ==
    LET starts == ClauseStarts(toks)
        skip == IF starts[5] # 0 THEN TextNum(ClauseBody(toks, 5)[1]) ELSE 0
        keep == IF starts[4] # 0 THEN TextNum(ClauseBody(toks, 4)[1])
                ELSE Len(order)
    IN  SubSeq(order, skip + 1, Min(skip + keep, Len(order)))

Project(row, cols) == [c \in {cols[i] : i \in 1..Len(cols)} |-> row[c]]

Failure(msg) == [ok |-> FALSE, error |-> msg, columns |-> <<>>, rows |-> <<>>]

\* the error the engine raises for the SELECT, "" when it raises none
QueryError(d, sql, params) ==
    IF ~SelectSyntaxOk(sql) THEN "syntax error"
    ELSE IF ClauseBody(sql, 1)[1] # "logs" \/ ~d.hasLogs THEN "no such table"
    ELSE IF CountOf(sql, "?") # Len(params) THEN "bind mismatch"
    ELSE ""

\* every result the engine may return for the SELECT
QueryOutcomes(d, sql, params) ==
    IF QueryError(d, sql, params) # "" THEN {Failure(QueryError(d, sql, params))}
    ELSE LET hasWhere == ClauseStarts(sql)[2] # 0
             S == {i \in 1..Len(d.rows) :
                      hasWhere => RowMatches(d.rows[i], ClauseBody(sql, 2), params)}
             cols == SelectColumns(sql)
         IN  {[ok |-> TRUE, error |-> "", columns |-> cols,
               rows |-> LET order == Page(f, sql)
                        IN  [i \in 1..Len(order) |-> Project(d.rows[order[i]], cols)]] :
                 f \in Arrangements(d.rows, S, sql)}

(***************************************************************************)
(* execute(db, sql, params) of the engine, at wall-clock reading now, on   *)
(*   INSERT INTO logs (cols) VALUES (?, ...)                               *)
(*   DELETE FROM logs WHERE ...                                            *)
(*   CREATE TABLE [IF NOT EXISTS] logs (...)                               *)
(* The result carries the database after the statement, the rows changed   *)
(* and the connection's last inserted row id (0 when it inserted none).    *)
(***************************************************************************)
ExecFailure(d, msg) ==
    [ok |-> FALSE, error |-> msg, db |-> d, changes |-> 0, lastId |-> 0]

InsertColumns(sql) ==
    LET list == SubSeq(sql, 4, IndexOf(sql, ")", 1) - 1)
    IN  [i \in 1..((Len(list) + 1) \div 2) |-> list[2 * i - 1]]

InsertSyntaxOk(sql) ==
    LET close == IndexOf(sql, ")", 1)
    IN  /\ Len(sql) >= 9
        /\ sql[1] = "INSERT INTO" /\ sql[3] = "(" /\ close > 4
        /\ ColumnListOk(SubSeq(sql, 4, close - 1))
        /\ Len(sql) >= close + 4
        /\ sql[close + 1] = "VALUES" /\ sql[close + 2] = "(" /\ sql[Len(sql)] = ")"
        /\ LET vals == SubSeq(sql, close + 3, Len(sql) - 1)
           IN  /\ Len(vals) % 2 = 1
               /\ \A i \in 1..Len(vals) : vals[i] = (IF i % 2 = 1 THEN "?" ELSE ",")
               /\ CountOf(vals, "?") = Len(InsertColumns(sql))

\* the row an INSERT builds: the bound value of each listed column, the
\* next AUTOINCREMENT id, datetime('now') for the two defaulted columns,
\* NULL elsewhere
NewRow(d, cols, params, now) ==
    [c \in {LOGS_COLUMNS[i] : i \in 1..Len(LOGS_COLUMNS)} |->
        IF \E i \in 1..Len(cols) : cols[i] = c
        THEN params[CHOOSE i \in 1..Len(cols) : cols[i] = c]
        ELSE IF c = "id" THEN d.seq + 1
        ELSE IF c \in {"timestamp", "created_at"} THEN Some(now)
        ELSE None]


\* ConstraintsOk of a table whose level column has no CHECK
ConstraintsOkNotNullOnly(d, row) ==
    \A c \in NOT_NULL_COLUMNS : IsSome(row[c])

\* the constraints of the table as it was created
ConstraintsOk(d, row) ==
    /\ \A c \in NOT_NULL_COLUMNS : IsSome(row[c])
    /\ d.levelCheck => Get(row["level"]) \in LEVEL_CHECK

ExecInsert(d, sql, params, now) ==
    IF ~InsertSyntaxOk(sql) THEN ExecFailure(d, "syntax error")
    ELSE IF sql[2] # "logs" \/ ~d.hasLogs THEN ExecFailure(d, "no such table")
    ELSE IF CountOf(sql, "?") # Len(params) THEN ExecFailure(d, "bind mismatch")
    ELSE LET row == NewRow(d, InsertColumns(sql), params, now)
         IN  IF ~ConstraintsOk(d, row) THEN ExecFailure(d, "constraint failed")
             ELSE [ok |-> TRUE, error |-> "",
                   db |-> [d EXCEPT !.rows = Append(@, row), !.seq = row["id"]],
                   changes |-> 1, lastId |-> row["id"]]

ExecDelete(d, sql, params) ==
    IF ~(Len(sql) >= 4 /\ sql[3] = "WHERE" /\ WhereOk(SubSeq(sql, 4, Len(sql))))
    THEN ExecFailure(d, "syntax error")
    ELSE IF sql[2] # "logs" \/ ~d.hasLogs THEN ExecFailure(d, "no such table")
    ELSE IF CountOf(sql, "?") # Len(params) THEN ExecFailure(d, "bind mismatch")
    ELSE LET where == SubSeq(sql, 4, Len(sql))
             Keep(row) == ~RowMatches(row, where, params)
             kept == SelectSeq(d.rows, Keep)
         IN  [ok |-> TRUE, error |-> "", db |-> [d EXCEPT !.rows = kept],
              changes |-> Len(d.rows) - Len(kept), lastId |-> 0]

CreateSyntaxOk(sql) ==
    /\ Len(sql) = 5
    /\ sql[1] \in {"CREATE TABLE", "CREATE TABLE IF NOT EXISTS"}
    /\ sql[3] = "(" /\ sql[5] = ")"
    /\ sql[4] \in {"level", "level CHECK"}

\* CREATE TABLE: an existing table is left as it is under IF NOT EXISTS and
\* is an error without it; tables other than logs are not kept
ExecCreate(d, sql) ==
    IF ~CreateSyntaxOk(sql) THEN ExecFailure(d, "syntax error")
    ELSE IF sql[2] # "logs"
    THEN [ok |-> TRUE, error |-> "", db |-> d, changes |-> 0, lastId |-> 0]
    ELSE IF d.hasLogs
    THEN IF sql[1] = "CREATE TABLE IF NOT EXISTS"
         THEN [ok |-> TRUE, error |-> "", db |-> d, changes |-> 0, lastId |-> 0]
         ELSE ExecFailure(d, "table logs already exists")
    ELSE [ok |-> TRUE, error |-> "",
          db |-> [d EXCEPT !.hasLogs = TRUE,
                           !.levelCheck = (sql[4] = "level CHECK")],
          changes |-> 0, lastId |-> 0]

Execute(d, sql, params, now) ==
    IF Len(sql) = 0 THEN ExecFailure(d, "syntax error")
    ELSE IF sql[1] = "INSERT INTO" THEN ExecInsert(d, sql, params, now)
    ELSE IF sql[1] = "DELETE FROM" THEN ExecDelete(d, sql, params)
    ELSE IF sql[1] \in {"CREATE TABLE", "CREATE TABLE IF NOT EXISTS"}
    THEN ExecCreate(d, sql)
    ELSE ExecFailure(d, "syntax error")

\* runMigrations(db, migrations): the up script of every migration, in
\* order, up to the first the engine rejects
RECURSIVE runMigrations(_, _, _)
runMigrations(d, migrations, now) ==
    IF Len(migrations) = 0
    THEN [ok |-> TRUE, error |-> "", db |-> d, changes |-> 0, lastId |-> 0]
    ELSE LET r == Execute(d, migrations[1].up, <<>>, now)
         IN  IF r.ok THEN runMigrations(r.db, Tail(migrations), now) ELSE r

(***************************************************************************)
(* register.ts: what the four handlers compute.                            *)
(***************************************************************************)
\* const dbPath = input.dbPath ?? DEFAULT_DB_PATH
ResolveDbPath(input) == OrElse(input.dbPath, DEFAULT_DB_PATH)


\* ensureLogsTable opening the default database whatever path it is given
ensureLogsTableAtDefault(dbPath) == DEFAULT_DB_PATH

\* the path ensureLogsTable(dbPath) opens its connection at
ensureLogsTablePath(dbPath) == dbPath


\* LevelAccepted without the membership test: any level given passes
LevelAcceptedAny(input) == IsSome(input.level)

\* LOG_LEVELS.includes(input.level)
LevelAccepted(input) ==
    IsSome(input.level) /\ Includes(LOG_LEVELS, Get(input.level))


\* dataJson testing the mapping for members: an empty mapping becomes NULL
dataJsonNonEmpty(input) ==
    IF IsSome(input.data) /\ Len(Get(input.data)) > 0
    THEN Some(JSON_stringify(Get(input.data)))
    ELSE None

\* input.data ? JSON.stringify(input.data) : null   (every object is truthy)
dataJson(input) ==
    IF IsSome(input.data) THEN Some(JSON_stringify(Get(input.data))) ELSE None

INSERT_LOG ==
    <<"INSERT INTO", "logs", "(", "level", ",", "message", ",", "data", ",",
      "session_id", ",", "command", ",", "context", ",", "error_stack", ")",
      "VALUES", "(", "?", ",", "?", ",", "?", ",", "?", ",", "?", ",", "?", ",",
      "?", ")">>

\* x ?? null
OrNull(o) == IF IsSome(o) THEN Some(Get(o)) ELSE None

StoreParams(input) ==
    <<input.level, Some(input.message), dataJson(input), OrNull(input.sessionId),
      OrNull(input.command), OrNull(input.context), OrNull(input.errorStack)>>

\* const id = lastInsertRowId(db); return { id }
lastInsertRowId(conn) == conn.lastInsertRowId

\* Array.isArray(input.level) ? input.level : [input.level]
QueryLevels(level) == IF level.isArray THEN level.items ELSE <<level.items[1]>>


\* QueryConditions with one placeholder for the level, however many are given
QueryConditionsOnePlaceholder(input) ==
    (IF IsSome(input.sessionId) THEN <<(<<"session_id", "=", "?">>)>> ELSE <<>>)
    \o (IF IsSome(input.command) THEN <<(<<"command", "=", "?">>)>> ELSE <<>>)
    \o (IF IsSome(input.level) THEN <<(<<"level", "IN", "(", "?", ")">>)>> ELSE <<>>)

QueryConditions(input) ==
    (IF IsSome(input.sessionId) THEN <<(<<"session_id", "=", "?">>)>> ELSE <<>>)
    \o (IF IsSome(input.command) THEN <<(<<"command", "=", "?">>)>> ELSE <<>>)
    \o (IF IsSome(input.level)
        THEN LET levels == QueryLevels(Get(input.level))
                 placeholders == Join([i \in 1..Len(levels) |-> <<"?">>], ",")
             IN  <<(<<"level", "IN", "(">> \o placeholders \o <<")">>)>>
        ELSE <<>>)


\* QueryParams with the command pushed before the session id
QueryParamsCommandFirst(input) ==
    (IF IsSome(input.command) THEN <<input.command>> ELSE <<>>)
    \o (IF IsSome(input.sessionId) THEN <<input.sessionId>> ELSE <<>>)
    \o (IF IsSome(input.level)
        THEN LET levels == QueryLevels(Get(input.level))
             IN  [i \in 1..Len(levels) |-> Some(levels[i])]
        ELSE <<>>)

QueryParams(input) ==
    (IF IsSome(input.sessionId) THEN <<input.sessionId>> ELSE <<>>)
    \o (IF IsSome(input.command) THEN <<input.command>> ELSE <<>>)
    \o (IF IsSome(input.level)
        THEN LET levels == QueryLevels(Get(input.level))
             IN  [i \in 1..Len(levels) |-> Some(levels[i])]
        ELSE <<>>)

whereClause(input) ==
    IF Len(QueryConditions(input)) > 0
    THEN <<"WHERE">> \o Join(QueryConditions(input), "AND")
    ELSE <<>>


\* orderDir ascending for any orderBy given
orderDirAnyGiven(input) == IF IsSome(input.orderBy) THEN "ASC" ELSE "DESC"

orderDir(input) == IF input.orderBy = Some("asc") THEN "ASC" ELSE "DESC"

limitClause(input) ==
    IF IsSome(input.limit) THEN <<"LIMIT", NumText(Get(input.limit))>> ELSE <<>>

offsetClause(input) ==
    IF IsSome(input.offset) THEN <<"OFFSET", NumText(Get(input.offset))>> ELSE <<>>

SELECT_COLUMNS ==
    <<"id", "timestamp", "level", "message", "data", "session_id", "command",
      "context", "error_stack">>

QuerySql(input) ==
    <<"SELECT">> \o Join([i \in 1..Len(SELECT_COLUMNS) |-> <<SELECT_COLUMNS[i]>>], ",")
    \o <<"FROM", "logs">> \o whereClause(input)
    \o <<"ORDER BY", "timestamp", orderDir(input)>>
    \o limitClause(input) \o offsetClause(input)

\* row.data ? JSON.parse(row.data) : null   (the empty string is falsy)
EntryData(data) ==
    IF IsSome(data) /\ Len(Get(data)) > 0 THEN Some(JSON_parse(Get(data))) ELSE None


\* LogEntry reading the public names off the row: a result row has no
\* sessionId and no errorStack, so both come out undefined
LogEntryPublicNames(row) ==
    [id |-> row["id"], timestamp |-> row["timestamp"], level |-> row["level"],
     message |-> row["message"], data |-> EntryData(row["data"]),
     sessionId |-> None, command |-> row["command"],
     context |-> row["context"], errorStack |-> None]

\* the LogEntry of a result row
LogEntry(row) ==
    [id |-> row["id"], timestamp |-> row["timestamp"], level |-> row["level"],
     message |-> row["message"], data |-> EntryData(row["data"]),
     sessionId |-> row["session_id"], command |-> row["command"],
     context |-> row["context"], errorStack |-> row["error_stack"]]

(***************************************************************************)
(* State.  db is the database file at each path.  calls holds every call   *)
(* in flight: its procedure, its input, where its handler stands (pc), the *)
(* connections it holds open (conn, in the order it opened them), and its  *)
(* output or failure.                                                      *)
(*                                                                         *)
(* Two history variables, read by no handler: stored records, per path,    *)
(* the id and the input of every logs.store that returned; erased, per     *)
(* path, the ids returned before the latest statement that removed rows.   *)
(*                                                                         *)
(* loaded tells whether the module has been loaded; registry is what the   *)
(* process-wide registry has been handed, one list of procedures for each  *)
(* registerProcedures call; explicitCalls (history) counts the calls of    *)
(* registerSqliteProcedures made by importers after the load.              *)
(***************************************************************************)
VARIABLES db, calls, stored, erased, loaded, registry, explicitCalls

vars == <<db, calls, stored, erased, loaded, registry, explicitCalls>>

\* the four procedures built with createProcedure().path(...).handler(...)
dbQueryProcedure == [path |-> <<"db", "query">>, handler |-> "db.query"]

dbExecuteProcedure == [path |-> <<"db", "execute">>, handler |-> "db.execute"]

logsStoreProcedure == [path |-> <<"logs", "store">>, handler |-> "logs.store"]

logsQueryProcedure == [path |-> <<"logs", "query">>, handler |-> "logs.query"]

\* registerProcedures(procedures) of the registry: it takes the list as one
\* registration; what it does with a path it already holds is its own
registerProcedures(reg, procedures) == Append(reg, procedures)


\* registerSqliteProcedures skipping the registration once one was made
registerSqliteProceduresGuarded(reg) ==
    IF Len(reg) > 0 THEN reg
    ELSE registerProcedures(reg, <<dbQueryProcedure, dbExecuteProcedure,
                                   logsStoreProcedure, logsQueryProcedure>>)

registerSqliteProcedures(reg) ==
    registerProcedures(reg, <<dbQueryProcedure, dbExecuteProcedure,
                              logsStoreProcedure, logsQueryProcedure>>)

\* whether the registry holds a procedure with this handler
Registered(op) ==
    \E i \in 1..Len(registry) :
        \E j \in 1..Len(registry[i]) : registry[i][j].handler = op

CUSTOM_DB_PATH == "./data/app.db"

Paths == {DEFAULT_DB_PATH, CUSTOM_DB_PATH}

Callers == {1, 2}

Idle ==
    [op |-> "none", pc |-> "idle", input |-> <<>>, conn |-> None, out |-> None,
     error |-> ""]

Init ==
    /\ db = [p \in Paths |-> EmptyDb]
    /\ calls = [c \in Callers |-> Idle]
    /\ stored = [p \in Paths |-> {}]
    /\ erased = [p \in Paths |-> {}]
    /\ loaded = FALSE
    /\ registry = <<>>
    /\ explicitCalls = 0

\* the module is loaded (once per process): its last statement calls
\* registerSqliteProcedures()
LoadModule ==
    /\ ~loaded
    /\ loaded' = TRUE
    /\ registry' = registerSqliteProcedures(registry)
    /\ UNCHANGED <<db, calls, stored, erased, explicitCalls>>

\* an importer calls the exported registerSqliteProcedures()
registerSqliteProceduresCalled ==
    /\ loaded
    /\ explicitCalls < MaxRegistrations
    /\ explicitCalls' = explicitCalls + 1
    /\ registry' = registerSqliteProcedures(registry)
    /\ UNCHANGED <<db, calls, stored, erased, loaded>>

\* whether a call of op with this input may insert a row
MayInsert(op, input) ==
    \/ op = "logs.store"
    \/ op = "db.execute" /\ Len(input.sql) > 0 /\ input.sql[1] = "INSERT INTO"

\* the calls in flight that may still insert a row at path p
Inserting(p) ==
    {c \in Callers :
        /\ calls[c].pc \in {"start", "ensuring", "ensured", "connected"}
        /\ MayInsert(calls[c].op, calls[c].input)
        /\ ResolveDbPath(calls[c].input) = p}

\* the registry dispatches a call of procedure op to its handler
Call(c, op, input) ==
    /\ calls[c].pc = "idle"
    /\ Registered(op)
    /\ MayInsert(op, input) =>
           db[ResolveDbPath(input)].seq
               + Cardinality(Inserting(ResolveDbPath(input))) < MaxRows
    /\ calls' = [calls EXCEPT ![c] = [Idle EXCEPT !.op = op, !.pc = "start",
                                                  !.input = input]]
    /\ UNCHANGED <<db, stored, erased>>

\* the caller takes the output or the failure of a finished call
Return(c) ==
    /\ calls[c].pc \in {"done", "failed"}
    /\ calls' = [calls EXCEPT ![c] = Idle]
    /\ UNCHANGED <<db, stored, erased>>

Open(dbPath) == Some([dbPath |-> dbPath, lastInsertRowId |-> 0])

Reject(c, msg) ==
    calls' = [calls EXCEPT ![c].pc = "failed", ![c].error = msg, ![c].conn = None]

Resolve(c, out) ==
    calls' = [calls EXCEPT ![c].pc = "done", ![c].out = Some(out), ![c].conn = None]

\* logs.store: throw new Error(`Invalid log level: ...`)
logsStoreInvalidLevel(c) ==
    /\ calls[c].op = "logs.store" /\ calls[c].pc = "start"
    /\ ~LevelAccepted(calls[c].input)
    /\ Reject(c, "Invalid log level")
    /\ UNCHANGED <<db, stored, erased>>

\* where a handler stands when it calls withConnection
AtEnsure(c) ==
    /\ calls[c].pc = "start"
    /\ \/ calls[c].op = "logs.query"
       \/ calls[c].op = "logs.store" /\ LevelAccepted(calls[c].input)


\* AtHandlerConnection with ensureLogsTable not awaited: the handler goes on
\* to its own withConnection while the guard's connection is still open
AtHandlerConnectionNoAwait(c) ==
    \/ calls[c].pc = "start" /\ calls[c].op \in {"db.query", "db.execute"}
    \/ calls[c].pc \in {"ensuring", "ensured"}

AtHandlerConnection(c) ==
    \/ calls[c].pc = "start" /\ calls[c].op \in {"db.query", "db.execute"}
    \/ calls[c].pc = "ensured"

\* ensureLogsTable: withConnection({ dbPath }, ...) opens its connection
ensureLogsTableOpen(c) ==
    /\ AtEnsure(c)
    /\ calls' = [calls EXCEPT
           ![c].pc = "ensuring",
           ![c].conn = @ \o Open(ensureLogsTablePath(ResolveDbPath(calls[c].input)))]
    /\ UNCHANGED <<db, stored, erased>>


\* ensureLogsTableRun with the migrations left out
ensureLogsTableRunNoMigration(c) ==
    /\ calls[c].pc = "ensuring"
    /\ calls' = [calls EXCEPT ![c].pc = "ensured", ![c].conn = None]
    /\ UNCHANGED <<db, stored, erased>>

\* ensureLogsTableRun with a migration that drops the table before creating it
ensureLogsTableRunRecreate(c) ==
    /\ calls[c].pc = "ensuring"
    /\ LET p == Get(calls[c].conn).dbPath
       IN  db' = [db EXCEPT ![p] = [@ EXCEPT !.hasLogs = TRUE, !.levelCheck = TRUE,
                                             !.rows = <<>>]]
    /\ calls' = [calls EXCEPT ![c].pc = "ensured", ![c].conn = None]
    /\ UNCHANGED <<stored, erased>>

\* ensureLogsTable: the callback runs the migrations; the connection closes
ensureLogsTableRun(c) ==
    /\ calls[c].pc = "ensuring"
    /\ LET p == Get(calls[c].conn).dbPath
           r == runMigrations(db[p], LOG_MIGRATIONS, 1)
       IN  /\ db' = [db EXCEPT ![p] = r.db]
           /\ IF r.ok
              THEN calls' = [calls EXCEPT ![c].pc = "ensured", ![c].conn = None]
              ELSE Reject(c, r.error)
    /\ UNCHANGED <<stored, erased>>

\* the handler's own withConnection({ dbPath }, ...) opens its connection
withConnectionOpen(c) ==
    /\ AtHandlerConnection(c)
    /\ calls' = [calls EXCEPT ![c].pc = "connected",
                              ![c].conn = @ \o Open(ResolveDbPath(calls[c].input))]
    /\ UNCHANGED <<db, stored, erased>>


\* withConnectionFails with the guard's failure caught: logs.store and
\* logs.query go on to their own connection
withConnectionFailsCaught(c) ==
    /\ AtEnsure(c) \/ AtHandlerConnection(c)
    /\ IF AtEnsure(c)
       THEN calls' = [calls EXCEPT ![c].pc = "ensured"]
       ELSE Reject(c, "unable to open database")
    /\ UNCHANGED <<db, stored, erased>>

\* withConnection cannot open the database: the call is rejected
withConnectionFails(c) ==
    /\ AtEnsure(c) \/ AtHandlerConnection(c)
    /\ Reject(c, "unable to open database")
    /\ UNCHANGED <<db, stored, erased>>

\* db.query: query(db, input.sql, params), { columns, rows }
dbQueryRun(c) ==
    /\ calls[c].op = "db.query" /\ calls[c].pc = "connected"
    /\ \E r \in QueryOutcomes(db[Get(calls[c].conn).dbPath], calls[c].input.sql,
                              OrElse(calls[c].input.params, <<>>)) :
           IF r.ok THEN Resolve(c, [columns |-> r.columns, rows |-> r.rows])
           ELSE Reject(c, r.error)
    /\ UNCHANGED <<db, stored, erased>>


\* dbExecuteOutput counting the rows left instead of the rows changed
dbExecuteOutputRowsLeft(result) == [changes |-> Len(result.db.rows)]

\* { changes: result.changes }
dbExecuteOutput(result) == [changes |-> result.changes]

\* db.execute: execute(db, input.sql, params)
dbExecuteRun(c, clock) ==
    /\ calls[c].op = "db.execute" /\ calls[c].pc = "connected"
    /\ \E now \in clock :
           LET p == Get(calls[c].conn).dbPath
               r == Execute(db[p], calls[c].input.sql,
                            OrElse(calls[c].input.params, <<>>), now)
           IN  /\ db' = [db EXCEPT ![p] = r.db]
               /\ IF r.ok THEN Resolve(c, dbExecuteOutput(r)) ELSE Reject(c, r.error)
               /\ erased' = IF Len(r.db.rows) < Len(db[p].rows)
                             THEN [erased EXCEPT ![p] = {s.id : s \in stored[p]}]
                             ELSE erased
    /\ UNCHANGED stored


\* logsStoreRun with the id read in a later unit of work than the INSERT,
\* from the database's latest id rather than this connection's
logsStoreRunLateId(c, clock) ==
    /\ calls[c].op = "logs.store" /\ calls[c].pc = "connected"
    /\ LET p == Get(calls[c].conn).dbPath
       IN  IF Get(calls[c].conn).lastInsertRowId = 0
           THEN \E now \in clock :
                    LET r == Execute(db[p], INSERT_LOG, StoreParams(calls[c].input), now)
                    IN  /\ db' = [db EXCEPT ![p] = r.db]
                        /\ IF r.ok
                           THEN calls' = [calls EXCEPT
                                    ![c].conn = Some([dbPath |-> p,
                                                      lastInsertRowId |-> r.lastId])]
                           ELSE Reject(c, r.error)
                        /\ UNCHANGED stored
           ELSE /\ Resolve(c, [id |-> db[p].seq])
                /\ stored' = [stored EXCEPT
                       ![p] = @ \cup {[id |-> db[p].seq, input |-> calls[c].input]}]
                /\ UNCHANGED db
    /\ UNCHANGED erased

\* logs.store: the INSERT, then lastInsertRowId on the same connection
logsStoreRun(c, clock) ==
    /\ calls[c].op = "logs.store" /\ calls[c].pc = "connected"
    /\ \E now \in clock :
           LET p == Get(calls[c].conn).dbPath
               r == Execute(db[p], INSERT_LOG, StoreParams(calls[c].input), now)
               conn == [Get(calls[c].conn) EXCEPT !.lastInsertRowId = r.lastId]
           IN  /\ db' = [db EXCEPT ![p] = r.db]
               /\ IF r.ok
                  THEN /\ Resolve(c, [id |-> lastInsertRowId(conn)])
                       /\ stored' = [stored EXCEPT
                              ![p] = @ \cup {[id |-> lastInsertRowId(conn),
                                              input |-> calls[c].input]}]
                  ELSE Reject(c, r.error) /\ UNCHANGED stored
    /\ UNCHANGED erased

\* logs.query: the assembled SELECT, each row mapped to a LogEntry
logsQueryRun(c) ==
    /\ calls[c].op = "logs.query" /\ calls[c].pc = "connected"
    /\ \E r \in QueryOutcomes(db[Get(calls[c].conn).dbPath],
                              QuerySql(calls[c].input), QueryParams(calls[c].input)) :
           IF r.ok
           THEN Resolve(c, [logs |-> [i \in 1..Len(r.rows) |-> LogEntry(r.rows[i])]])
           ELSE Reject(c, r.error)
    /\ UNCHANGED <<db, stored, erased>>

\* a step of the handler of call c; clock holds the readings datetime('now')
\* can return
Handle(c, clock) ==
    \/ logsStoreInvalidLevel(c)
    \/ ensureLogsTableOpen(c)
    \/ ensureLogsTableRun(c)
    \/ withConnectionOpen(c)
    \/ withConnectionFails(c)
    \/ dbQueryRun(c)
    \/ dbExecuteRun(c, clock)
    \/ logsStoreRun(c, clock)
    \/ logsQueryRun(c)
    \/ Return(c)

(***************************************************************************)
(* Inputs.  A workload names the callers and the inputs they call the four *)
(* procedures with.                                                        *)
(***************************************************************************)
LogsStoreInput(level, message, data, sessionId, command, dbPath) ==
    [level |-> level, message |-> message, sessionId |-> sessionId,
     command |-> command, context |-> None, data |-> data, errorStack |-> None,
     dbPath |-> dbPath]

LogsQueryInput(sessionId, command, level, limit, offset, orderBy, dbPath) ==
    [sessionId |-> sessionId, command |-> command, level |-> level,
     limit |-> limit, offset |-> offset, orderBy |-> orderBy, dbPath |-> dbPath]

OneLevel(l) == Some([isArray |-> FALSE, items |-> <<l>>])
LevelArray(ls) == Some([isArray |-> TRUE, items |-> ls])

DELETE_BY_LEVEL == <<"DELETE FROM", "logs", "WHERE", "level", "=", "?">>

INSERT_LEVEL_MESSAGE ==
    <<"INSERT INTO", "logs", "(", "level", ",", "message", ")", "VALUES", "(",
      "?", ",", "?", ")">>

SELECT_BY_LEVEL ==
    <<"SELECT", "*", "FROM", "logs", "WHERE", "level", "=", "?", "ORDER BY",
      "timestamp", "DESC">>

\* db.execute creating a logs table by hand: the migration's columns, the
\* level column without its CHECK constraint
CREATE_PLAIN_LOGS == <<"CREATE TABLE", "logs", "(", "level", ")">>

SqlInput(sql, params, dbPath) == [sql |-> sql, params |-> params, dbPath |-> dbPath]

DeleteDebug == SqlInput(DELETE_BY_LEVEL, Some(<<Some("debug")>>), None)

SelectInfo == SqlInput(SELECT_BY_LEVEL, Some(<<Some("info")>>), None)

\* a statement the engine cannot parse
Malformed == SqlInput(<<"SELEC", "*", "FROM", "logs">>, None, None)

Bogus == LogsStoreInput(Some("bogus"), "m", None, None, None, None)

NoFilter == LogsQueryInput(None, None, None, None, None, None, None)

\* two concurrent callers of the default database
Concurrent ==
    [callers |-> {1, 2}, clock |-> {1},
     logsStore |-> {LogsStoreInput(Some(l), m, None, None, None, None) :
                        l \in {"info", "bogus"}, m \in {"m1", "m2"}},
     logsQuery |-> {NoFilter},
     dbExecute |-> {SqlInput(INSERT_LEVEL_MESSAGE,
                             Some(<<Some("bogus"), Some("m1")>>), None)},
     dbQuery |-> {SelectInfo, Malformed}]

\* one caller storing every level, and deleting the debug rows
Levels ==
    [callers |-> {1}, clock |-> {1},
     logsStore |-> {LogsStoreInput(Some(l), "m", None, None, None, None) :
                        l \in {"trace", "debug", "info", "warn", "error", "bogus"}}
                   \cup {LogsStoreInput(Some("info"), "n", None, None, None, None)},
     logsQuery |-> {NoFilter},
     dbExecute |-> {DeleteDebug},
     dbQuery |-> {SelectInfo}]

\* one caller querying by session, command and level
Filters ==
    [callers |-> {1}, clock |-> {1},
     logsStore |-> {LogsStoreInput(Some("warn"), "m", None, Some("s1"), Some("c1"), None),
                    LogsStoreInput(Some("error"), "m", None, Some("s1"), None, None),
                    LogsStoreInput(Some("info"), "m", None, Some("s1"), Some("c1"), None),
                    LogsStoreInput(Some("warn"), "m", None, Some("s2"), Some("c1"), None),
                    LogsStoreInput(Some("error"), "m", None, None, Some("c1"), None),
                    LogsStoreInput(Some("info"), "m", None, None, None, None),
                    Bogus},
     logsQuery |-> {LogsQueryInput(sid, cmd, lvl, None, None, None, None) :
                        sid \in {None, Some("s1")}, cmd \in {None, Some("c1")},
                        lvl \in {None, OneLevel("warn"),
                                 LevelArray(<<"warn", "error">>),
                                 LevelArray(<<"warn", "warn">>), LevelArray(<<>>)}},
     dbExecute |-> {DeleteDebug},
     dbQuery |-> {SelectInfo}]

\* one caller paging through rows stored at different times
Paging ==
    [callers |-> {1}, clock |-> 1..MaxTime,
     logsStore |-> {LogsStoreInput(Some("info"), "m", None, None, None, None), Bogus},
     logsQuery |-> {LogsQueryInput(None, None, None, lim, off, ord, None) :
                        lim \in {None, Some(0), Some(1), Some(2)},
                        off \in {None, Some(0), Some(1)},
                        ord \in {None, Some("asc"), Some("desc"), Some("ASC")}},
     dbExecute |-> {DeleteDebug},
     dbQuery |-> {SelectInfo}]

\* one caller storing structured data
Data ==
    [callers |-> {1}, clock |-> {1},
     logsStore |-> {LogsStoreInput(Some("info"), "m", data, None, None, None) :
                        data \in {None, Some(<<>>),
                                  Some(<<(<<"a", JsonNum(1)>>)>>),
                                  Some(<<(<<"a", JsonNum(1)>>), <<"b", JsonStr("x")>>>>),
                                  Some(<<(<<"b", JsonStr("x")>>), <<"a", JsonNum(2)>>>>)}}
                   \cup {[LogsStoreInput(Some("warn"), "w", Some(<<(<<"a", JsonNum(1)>>)>>),
                                          Some("s1"), Some("c1"), None)
                              EXCEPT !.context = Some("ctx"),
                                     !.errorStack = Some("stack")],
                         Bogus},
     logsQuery |-> {NoFilter},
     dbExecute |-> {DeleteDebug},
     dbQuery |-> {SelectInfo}]

ExplicitPaths == {None, Some(CUSTOM_DB_PATH), Some(DEFAULT_DB_PATH)}

\* one caller naming the database of each call
WithPaths ==
    [callers |-> {1}, clock |-> {1},
     logsStore |-> {LogsStoreInput(Some(l), "m", None, None, None, path) :
                        l \in {"info", "bogus"}, path \in ExplicitPaths},
     logsQuery |-> {LogsQueryInput(None, None, None, None, None, None, path) :
                        path \in ExplicitPaths},
     dbExecute |-> {SqlInput(DELETE_BY_LEVEL, Some(<<Some("info")>>), path) :
                        path \in ExplicitPaths},
     dbQuery |-> {SqlInput(SELECT_BY_LEVEL, Some(<<Some("info")>>), path) :
                        path \in ExplicitPaths}]

\* one caller writing rows through logs.store and through db.execute, to a
\* table the guard created or one created through db.execute
Schema ==
    [callers |-> {1}, clock |-> {1},
     logsStore |-> {LogsStoreInput(Some("info"), "m", None, None, None, None), Bogus},
     logsQuery |-> {NoFilter},
     dbExecute |-> {SqlInput(INSERT_LEVEL_MESSAGE,
                             Some(<<Some("bogus"), Some("m1")>>), None),
                    SqlInput(INSERT_LEVEL_MESSAGE,
                             Some(<<Some("debug"), Some("m1")>>), None),
                    SqlInput(CREATE_PLAIN_LOGS, None, None)},
     dbQuery |-> {SelectInfo}]

\* one caller, one input of each kind, after any number of registrations
Registrations ==
    [callers |-> {1}, clock |-> {1},
     logsStore |-> {LogsStoreInput(Some("info"), "m", None, None, None, None), Bogus},
     logsQuery |-> {NoFilter},
     dbExecute |-> {DeleteDebug},
     dbQuery |-> {SelectInfo}]

Next(W) ==
    \/ LoadModule
    \/ /\ UNCHANGED <<loaded, registry, explicitCalls>>
       /\ \E c \in W.callers :
              \/ \E input \in W.logsStore : Call(c, "logs.store", input)
              \/ \E input \in W.logsQuery : Call(c, "logs.query", input)
              \/ \E input \in W.dbExecute : Call(c, "db.execute", input)
              \/ \E input \in W.dbQuery : Call(c, "db.query", input)
              \/ Handle(c, W.clock)

NextConcurrent == Next(Concurrent)

Spec == Init /\ [][NextConcurrent]_vars

NextLevels == Next(Levels)

SpecLevels == Init /\ [][NextLevels]_vars

NextFilters == Next(Filters)

SpecFilters == Init /\ [][NextFilters]_vars

NextPaging == Next(Paging)

SpecPaging == Init /\ [][NextPaging]_vars

NextData == Next(Data)

SpecData == Init /\ [][NextData]_vars

NextWithPaths == Next(WithPaths)

SpecPaths == Init /\ [][NextWithPaths]_vars

NextSchema == Next(Schema)

SpecSchema == Init /\ [][NextSchema]_vars

NextRegistrations == Next(Registrations) \/ registerSqliteProceduresCalled

SpecRegistry == Init /\ [][NextRegistrations]_vars

(***************************************************************************)
(* Properties.                                                             *)
(***************************************************************************)
StepOf(c) == calls'[c] # calls[c]

Ids(rows) == {rows[i]["id"] : i \in 1..Len(rows)}

\* C1: a logs.store whose level is none of trace, debug, info, warn, error
\* takes one step, which rejects it with the invalid-level error, opens no
\* connection and leaves every database (table and rows) as it was.
C1_InvalidLevelTouchesNothing ==
    [][\A c \in Callers :
          (/\ calls[c].op = "logs.store"
           /\ calls[c].input.level \notin
                  {Some("trace"), Some("debug"), Some("info"), Some("warn"),
                   Some("error")}
           /\ StepOf(c) /\ calls[c].pc # "failed")
          => /\ calls[c].pc = "start"
             /\ calls'[c].pc = "failed"
             /\ calls'[c].error = "Invalid log level"
             /\ calls'[c].conn = None
             /\ db' = db]_vars

C1_Witness ==
    \E c \in Callers :
        /\ calls[c].op = "logs.store" /\ calls[c].pc = "failed"
        /\ calls[c].error = "Invalid log level"
        /\ db[DEFAULT_DB_PATH].hasLogs /\ Len(db[DEFAULT_DB_PATH].rows) > 0

\* C3: a logs.store that has passed the table-ensure guard, and so every
\* one that attempts its INSERT, finds the logs table in its database, and
\* no logs.store fails for want of the table.
C3_TableEnsuredBeforeInsert ==
    \A c \in Callers :
        calls[c].op = "logs.store" =>
            /\ calls[c].pc \in {"ensured", "connected"} =>
                   db[OrElse(calls[c].input.dbPath, DEFAULT_DB_PATH)].hasLogs
            /\ calls[c].pc = "failed" => calls[c].error # "no such table"

\* the first row of a database, stored by a call that met no table
C3_Witness ==
    \E c \in Callers :
        /\ calls[c].op = "logs.store" /\ calls[c].pc = "done"
        /\ Get(calls[c].out).id = 1
        /\ \A o \in Callers \ {c} : calls[o].pc = "idle"
        /\ Len(db[DEFAULT_DB_PATH].rows) = 1

\* C10: the step in which a logs.store returns appends one row to its
\* database; the id returned is that row's, the row holds the call's level
\* and message, and no earlier logs.store at that path returned the id.
C10_ReturnedIdIsOwnRow ==
    [][\A c \in Callers :
          (calls[c].op = "logs.store" /\ calls'[c].pc = "done" /\ StepOf(c))
          => LET p == OrElse(calls[c].input.dbPath, DEFAULT_DB_PATH)
                 id == Get(calls'[c].out).id
             IN  /\ id \notin {s.id : s \in stored[p]}
                 /\ \E i \in 1..Len(db'[p].rows) :
                        /\ db'[p].rows[i]["id"] = id
                        /\ db'[p].rows[i]["level"] = calls[c].input.level
                        /\ db'[p].rows[i]["message"] = Some(calls[c].input.message)
                        /\ id \notin Ids(db[p].rows)
                        /\ \A j \in 1..Len(db'[p].rows) :
                               db'[p].rows[j]["id"] = id => j = i]_vars

\* two calls raced: both were in flight when the first of them returned
C10_Witness ==
    /\ \A c \in Callers : calls[c].op = "logs.store" /\ calls[c].pc = "done"
    /\ Get(calls[1].out).id = 2 /\ Get(calls[2].out).id = 1
    /\ calls[1].input.message # calls[2].input.message

\* the path the claims expect a call with this input to work on
TargetPath(input) ==
    IF input.dbPath = <<>> THEN "~/logs/cli/cli.db" ELSE input.dbPath[1]

FiveLevels ==
    {Some("trace"), Some("debug"), Some("info"), Some("warn"), Some("error")}

\* C2: a logs.store with one of the five levels fails only if its database
\* cannot be opened, and its INSERT always succeeds; a logs.query({}) that
\* returns lists, for every logs.store that returned at its path with no
\* deletion since, an entry with that level and message.
C2_StoredThenQueried ==
    [][\A c \in Callers :
          /\ (/\ calls[c].op = "logs.store" /\ calls[c].input.level \in FiveLevels
              /\ StepOf(c) /\ calls'[c].pc = "failed")
             => calls[c].pc # "connected"
                /\ calls'[c].error = "unable to open database"
          /\ (/\ calls[c].op = "logs.query" /\ calls[c].input = NoFilter
              /\ StepOf(c) /\ calls'[c].pc = "done")
             => LET logs == Get(calls'[c].out).logs
                    p == TargetPath(calls[c].input)
                IN  \A s \in stored[p] :
                        s.id \notin erased[p] =>
                            \E i \in 1..Len(logs) :
                                /\ logs[i].id = s.id
                                /\ logs[i].level = s.input.level
                                /\ logs[i].message = Some(s.input.message)]_vars

C2_Witness ==
    \E c \in Callers :
        /\ calls[c].op = "logs.query" /\ calls[c].pc = "done"
        /\ {s.input.level : s \in stored[DEFAULT_DB_PATH]}
               = {Some("trace"), Some("warn"), Some("error")}
        /\ erased[DEFAULT_DB_PATH] = {}
        /\ Len(Get(calls[c].out).logs) = 3

\* deep equality of two mappings: the same keys, each with the same value
C4_AsMap(m) ==
    LET keys == {m[i][1] : i \in 1..Len(m)}
    IN  [key \in keys |-> m[CHOOSE i \in 1..Len(m) : m[i][1] = key][2]]

C4_DeepEqual(m1, m2) == C4_AsMap(m1) = C4_AsMap(m2)

\* C4: a stored row's data column is NULL exactly when the logs.store that
\* wrote it had no data, and the data of a queried entry is null in that
\* case and otherwise a mapping with the keys and values of the one stored.
C4_DataRoundTrip ==
    /\ \A p \in Paths : \A s \in stored[p] : \A i \in 1..Len(db[p].rows) :
           db[p].rows[i]["id"] = s.id =>
               (db[p].rows[i]["data"] = <<>> <=> s.input.data = <<>>)
    /\ \A c \in Callers :
           (calls[c].op = "logs.query" /\ calls[c].pc = "done") =>
               LET logs == Get(calls[c].out).logs
               IN  \A i \in 1..Len(logs) :
                       \A s \in stored[TargetPath(calls[c].input)] :
                           s.id = logs[i].id =>
                               IF s.input.data = <<>> THEN logs[i].data = <<>>
                               ELSE /\ logs[i].data # <<>>
                                    /\ C4_DeepEqual(Get(logs[i].data), Get(s.input.data))

\* the empty mapping, a two-member mapping and no data, queried together
C4_Witness ==
    \E c \in Callers :
        /\ calls[c].op = "logs.query" /\ calls[c].pc = "done"
        /\ LET logs == Get(calls[c].out).logs
           IN  /\ \E i \in 1..Len(logs) : logs[i].data = Some(<<>>)
               /\ \E i \in 1..Len(logs) : logs[i].data = None
               /\ \E i \in 1..Len(logs) :
                      logs[i].data # None /\ Len(Get(logs[i].data)) = 2

\* whether a row satisfies every predicate a logs.query input gives
C5_Satisfies(row, input) ==
    /\ input.sessionId # <<>> => row["session_id"] = input.sessionId
    /\ input.command # <<>> => row["command"] = input.command
    /\ input.level # <<>> =>
           \E k \in 1..Len(input.level[1].items) :
               row["level"] = <<input.level[1].items[k]>>

\* C5: a logs.query without limit and offset fails only if its database
\* cannot be opened, and returns each stored row once if the row satisfies
\* every predicate given (session id, command, level among the levels
\* given) and no other row.
C5_QueryReturnsExactlyMatching ==
    \A c \in Callers :
        (calls[c].op = "logs.query" /\ calls[c].input.limit = <<>>
         /\ calls[c].input.offset = <<>>) =>
            /\ calls[c].pc = "failed" => calls[c].error = "unable to open database"
            /\ calls[c].pc = "done" =>
                   LET logs == Get(calls[c].out).logs
                       rows == db[TargetPath(calls[c].input)].rows
                       match == {i \in 1..Len(rows) : C5_Satisfies(rows[i], calls[c].input)}
                   IN  /\ Len(logs) = Cardinality(match)
                       /\ {logs[i].id : i \in 1..Len(logs)} = {rows[i]["id"] : i \in match}

\* all three predicates given: two rows match, one stored after the first
\* does not
C5_Witness ==
    \E c \in Callers :
        /\ calls[c].op = "logs.query" /\ calls[c].pc = "done"
        /\ calls[c].input.sessionId = Some("s1")
        /\ calls[c].input.command = Some("c1")
        /\ calls[c].input.level = LevelArray(<<"warn", "error">>)
        /\ Len(Get(calls[c].out).logs) = 1
        /\ Len(db[DEFAULT_DB_PATH].rows) = 3
        /\ db[DEFAULT_DB_PATH].rows[3]["level"] = Some("warn")
        /\ db[DEFAULT_DB_PATH].rows[3]["session_id"] = Some("s1")

\* C6: the entries logs.query returns are in non-decreasing timestamp order
\* when orderBy is "asc", in non-increasing order for any other or no
\* orderBy.
C6_TimestampOrder ==
    \A c \in Callers :
        (calls[c].op = "logs.query" /\ calls[c].pc = "done") =>
            LET logs == Get(calls[c].out).logs
            IN  \A i, j \in 1..Len(logs) :
                    i < j =>
                        IF calls[c].input.orderBy = <<"asc">>
                        THEN logs[i].timestamp[1] <= logs[j].timestamp[1]
                        ELSE logs[i].timestamp[1] >= logs[j].timestamp[1]

\* orderBy "ASC" is not "asc": the later-stored, earlier-stamped row is last
C6_Witness ==
    \E c \in Callers :
        /\ calls[c].op = "logs.query" /\ calls[c].pc = "done"
        /\ calls[c].input.orderBy = Some("ASC")
        /\ LET logs == Get(calls[c].out).logs
           IN  /\ Len(logs) = 3
               /\ logs[1].timestamp[1] > logs[3].timestamp[1]
               /\ logs[1].id < logs[3].id

\* the rows ranked by timestamp in the requested direction
C7_Rankings(rows, asc) ==
    {f \in [1..Len(rows) -> 1..Len(rows)] :
        /\ \A a, b \in 1..Len(rows) : a # b => f[a] # f[b]
        /\ \A a \in 1..(Len(rows) - 1) :
               IF asc THEN rows[f[a]]["timestamp"][1] <= rows[f[a + 1]]["timestamp"][1]
               ELSE rows[f[a]]["timestamp"][1] >= rows[f[a + 1]]["timestamp"][1]}

C7_Ranking(rows, asc) == CHOOSE f \in C7_Rankings(rows, asc) : TRUE

\* C7: the entries logs.query returns for limit L and offset O are those
\* ranked O+1 .. min(O+L, N) in the requested timestamp order of the N
\* stored rows, the ranking being a function of the stored rows alone.
C7_PageIsRankedSlice ==
    \A c \in Callers :
        (calls[c].op = "logs.query" /\ calls[c].pc = "done"
         /\ calls[c].input.limit # <<>> /\ calls[c].input.offset # <<>>) =>
            LET logs == Get(calls[c].out).logs
                rows == db[TargetPath(calls[c].input)].rows
                rank == C7_Ranking(rows, calls[c].input.orderBy = <<"asc">>)
                O == calls[c].input.offset[1]
                L == calls[c].input.limit[1]
                last == IF O + L <= Len(rows) THEN O + L ELSE Len(rows)
            IN  /\ Len(logs) = (IF last > O THEN last - O ELSE 0)
                /\ \A i \in 1..Len(logs) : logs[i].id = rows[rank[O + i]]["id"]

\* the rows that are not debug rows, in order
C8_Others(rows) ==
    LET NotDebug(row) == row["level"] # <<"debug">>
    IN  SelectSeq(rows, NotDebug)

\* C8: a db.execute of DELETE FROM logs WHERE level = 'debug' that returns
\* returns only changes, the number of debug rows its database held, and
\* leaves that database with every other row, in order, and no debug row,
\* and every other database as it was.
C8_DeleteReturnsRowsRemoved ==
    [][\A c \in Callers :
          (/\ calls[c].op = "db.execute" /\ calls[c].input.sql = DELETE_BY_LEVEL
           /\ calls[c].input.params = <<(<<(<<"debug">>)>>)>>
           /\ StepOf(c) /\ calls'[c].pc = "done")
          => LET p == TargetPath(calls[c].input)
                 debug == {i \in 1..Len(db[p].rows) :
                              db[p].rows[i]["level"] = <<"debug">>}
             IN  /\ calls'[c].out = <<[changes |-> Cardinality(debug)]>>
                 /\ db'[p].rows = C8_Others(db[p].rows)
                 /\ db'[p].hasLogs
                 /\ \A q \in Paths \ {p} : db'[q] = db[q]]_vars

C8_Witness ==
    \E c \in Callers :
        /\ calls[c].op = "db.execute" /\ calls[c].pc = "done"
        /\ Get(calls[c].out).changes = 2
        /\ Len(db[DEFAULT_DB_PATH].rows) = 1
        /\ db[DEFAULT_DB_PATH].rows[1]["id"] = 2

\* C9: every connection a call opens is at input.dbPath when that is given
\* and at the default path otherwise, and no step of the call changes the
\* database at any other path.
C9_ExplicitPathWins ==
    [][\A c \in Callers :
          StepOf(c) =>
              IF calls'[c].pc = "idle" THEN db' = db
              ELSE LET target == TargetPath(calls'[c].input)
                   IN  /\ calls'[c].conn # <<>> => calls'[c].conn[1].dbPath = target
                       /\ \A q \in Paths \ {target} : db'[q] = db[q]]_vars

\* a logs.store at an explicit path has left the default database without
\* even the table
C9_Witness ==
    \E c \in Callers :
        /\ calls[c].op = "logs.store" /\ calls[c].pc = "done"
        /\ calls[c].input.dbPath = Some(CUSTOM_DB_PATH)
        /\ Len(db[CUSTOM_DB_PATH].rows) = 1
        /\ db[DEFAULT_DB_PATH] = EmptyDb

\* C11: a call holds a connection only between the step that opens it and
\* the call's next step, which runs the one unit of work and releases it,
\* whether the work succeeds or fails: a step that opens a connection starts
\* with none held and ends with one, every step of a call that holds one
\* ends with none, and a call that has settled or not begun holds none.
C11_ConnectionsScoped ==
    [][\A c \in Callers :
          StepOf(c) =>
              /\ Len(calls[c].conn) > 0 => Len(calls'[c].conn) = 0
              /\ Len(calls'[c].conn) > 0 =>
                     Len(calls[c].conn) = 0 /\ Len(calls'[c].conn) = 1
              /\ calls'[c].pc \in {"idle", "start", "ensured", "done", "failed"}
                     => Len(calls'[c].conn) = 0]_vars

\* one call failed in its unit of work, the other holds the connection of
\* its INSERT after the guard's was released
C11_Witness ==
    /\ calls[1].op = "db.execute" /\ calls[1].pc = "failed"
    /\ calls[1].error = "constraint failed" /\ calls[1].conn = <<>>
    /\ calls[2].op = "logs.store" /\ calls[2].pc = "connected"
    /\ Len(calls[2].conn) = 1

\* C12: a table-ensure step never fails, leaves the logs table of its
\* database existing with the rows and the id counter it found, and at every
\* point the rows of a database are exactly those the logs.store calls that
\* returned have written: one row per returned id, with that call's level
\* and message.
C12_EnsureIdempotent ==
    [][/\ \A c \in Callers :
             (calls[c].pc = "ensuring" /\ StepOf(c)) =>
                 LET p == TargetPath(calls[c].input)
                 IN  /\ calls'[c].pc = "ensured"
                     /\ db'[p].hasLogs
                     /\ db'[p].rows = db[p].rows
                     /\ db'[p].seq = db[p].seq
       /\ \A p \in Paths :
             /\ db[p].hasLogs => db'[p].hasLogs
             /\ Len(db'[p].rows) = Cardinality(stored'[p])
             /\ \A s \in stored'[p] :
                    \E i \in 1..Len(db'[p].rows) :
                        /\ db'[p].rows[i]["id"] = s.id
                        /\ db'[p].rows[i]["level"] = s.input.level
                        /\ db'[p].rows[i]["message"] = <<s.input.message>>]_vars

\* both callers have passed the guard, one after the other, on a table that
\* already held two rows
C12_Witness ==
    /\ \A c \in Callers : calls[c].pc = "ensured"
    /\ Len(db[DEFAULT_DB_PATH].rows) = 2
    /\ Cardinality(stored[DEFAULT_DB_PATH]) = 2

\* the steps a handler takes, in the order it takes them
C13_Order(op) ==
    IF op \in {"db.query", "db.execute"}
    THEN {<<"start", "connected">>, <<"start", "failed">>,
          <<"connected", "done">>, <<"connected", "failed">>,
          <<"done", "idle">>, <<"failed", "idle">>}
    ELSE {<<"start", "ensuring">>, <<"start", "failed">>,
          <<"ensuring", "ensured">>, <<"ensuring", "failed">>,
          <<"ensured", "connected">>, <<"ensured", "failed">>,
          <<"connected", "done">>, <<"connected", "failed">>,
          <<"done", "idle">>, <<"failed", "idle">>}

\* whether the connection utility and the engine can hand the step call c
\* is about to take the result x: "ok", or the message of a failure
C13_MayResult(c, x) ==
    LET input == calls[c].input
        d == db[TargetPath(input)]
        Of(r) == IF r.ok THEN "ok" ELSE r.error
        OfQuery(e) == IF e = "" THEN "ok" ELSE e
    IN  IF calls[c].pc = "ensuring"
        THEN Of(Execute(d, LOG_MIGRATIONS[1].up, <<>>, 1)) = x
        ELSE IF calls[c].pc # "connected"
        THEN x \in {"ok", "unable to open database"}
        ELSE IF calls[c].op = "db.query"
        THEN OfQuery(QueryError(d, input.sql,
                                IF input.params = <<>> THEN <<>>
                                ELSE input.params[1])) = x
        ELSE IF calls[c].op = "db.execute"
        THEN \E now \in 1..MaxTime :
                 Of(Execute(d, input.sql,
                            IF input.params = <<>> THEN <<>> ELSE input.params[1],
                            now)) = x
        ELSE IF calls[c].op = "logs.store"
        THEN \E now \in 1..MaxTime :
                 Of(Execute(d, INSERT_LOG, StoreParams(input), now)) = x
        ELSE OfQuery(QueryError(d, QuerySql(input), QueryParams(input))) = x

\* C13: a handler takes its steps in order, each at most once; a step the
\* connection utility or the engine fails rejects the call with that
\* failure's message, a step that does not fail never rejects it, and a
\* rejected call does nothing more: after a failed table-ensure step no
\* INSERT or SELECT follows.
C13_FailuresPropagate ==
    [][\A c \in Callers :
          (StepOf(c) /\ calls[c].pc # "idle") =>
              /\ <<calls[c].pc, calls'[c].pc>> \in C13_Order(calls[c].op)
              /\ calls[c].pc \in {"done", "failed"} => db' = db
              /\ (calls[c].pc \notin {"done", "failed"}
                  /\ ~(calls[c].op = "logs.store"
                       /\ calls[c].input.level \notin FiveLevels)) =>
                     IF calls'[c].pc = "failed"
                     THEN /\ calls'[c].error # "ok"
                          /\ C13_MayResult(c, calls'[c].error)
                     ELSE C13_MayResult(c, "ok")]_vars

\* one call rejected with the engine's syntax error, the other because the
\* guard's connection could not be opened: its table was never created
C13_Witness ==
    /\ calls[1].op = "db.query" /\ calls[1].pc = "failed"
    /\ calls[1].error = "syntax error"
    /\ calls[2].op = "logs.query" /\ calls[2].pc = "failed"
    /\ calls[2].error = "unable to open database"
    /\ ~db[DEFAULT_DB_PATH].hasLogs

\* C14: the registry has been handed one registration for the load of the
\* module and one more for each explicit call of registerSqliteProcedures,
\* none before the load, and every registration is the four procedures at
\* the paths [db,query], [db,execute], [logs,store], [logs,query].
C14_RegisteredOnLoadAndOnEveryCall ==
    /\ Len(registry) = (IF loaded THEN 1 ELSE 0) + explicitCalls
    /\ \A i \in 1..Len(registry) :
           /\ Len(registry[i]) = 4
           /\ {registry[i][j].path : j \in 1..4}
                  = {<<"db", "query">>, <<"db", "execute">>, <<"logs", "store">>,
                     <<"logs", "query">>}

\* two explicit calls after the load, and a procedure dispatched since
C14_Witness ==
    /\ loaded /\ explicitCalls = 2 /\ Len(registry) = 3
    /\ calls[1].op = "logs.store" /\ calls[1].pc = "done"

\* C15: a logs.query fails only if its database cannot be opened, and of the
\* N stored rows it returns all but the first O when only offset O is given,
\* the first L when only limit L is given, at most L after the first O when
\* both are given, and all N when neither is; 0 counts as given.
C15_LimitAndOffsetIndependent ==
    \A c \in Callers :
        calls[c].op = "logs.query" =>
            /\ calls[c].pc = "failed" => calls[c].error = "unable to open database"
            /\ calls[c].pc = "done" =>
                   LET N == Len(db[TargetPath(calls[c].input)].rows)
                       O == IF calls[c].input.offset = <<>> THEN 0
                            ELSE calls[c].input.offset[1]
                       rest == IF N > O THEN N - O ELSE 0
                       L == IF calls[c].input.limit = <<>> THEN rest
                            ELSE calls[c].input.limit[1]
                   IN  Len(Get(calls[c].out).logs) = (IF L < rest THEN L ELSE rest)

\* the levels a logs.query input gives, in their given order
C16_Levels(input) == IF input.level = <<>> THEN <<>> ELSE input.level[1].items

\* the bind values the claim expects: session id, command, then each level
C16_Values(input) ==
    (IF input.sessionId = <<>> THEN <<>> ELSE <<input.sessionId>>)
    \o (IF input.command = <<>> THEN <<>> ELSE <<input.command>>)
    \o [i \in 1..Len(C16_Levels(input)) |-> <<C16_Levels(input)[i]>>]

\* the columns the claim expects predicates on, in order
C16_Columns(input) ==
    (IF input.sessionId = <<>> THEN <<>> ELSE <<"session_id">>)
    \o (IF input.command = <<>> THEN <<>> ELSE <<"command">>)
    \o (IF input.level = <<>> THEN <<>> ELSE <<"level">>)

\* C16: the statement a logs.query assembles has as many placeholders as
\* bind values; the bind values are the session id, the command and the
\* levels in their given order, duplicates kept; its WHERE clause has one
\* predicate per input given, on session_id, command and level in that
\* order, joined by AND, and is there exactly when an input is given.
C16_PlaceholdersMatchValues ==
    \A c \in Callers :
        (calls[c].op = "logs.query" /\ calls[c].pc \in {"connected", "done"}) =>
            LET input == calls[c].input
                sql == QuerySql(input)
                from == IndexOf(sql, "WHERE", 1)
                to == IndexOf(sql, "ORDER BY", 1)
                where == IF from = 0 THEN <<>> ELSE SubSeq(sql, from + 1, to - 1)
                IsColumn(t) == t \in {"session_id", "command", "level"}
                given == Len(C16_Columns(input))
            IN  /\ CountOf(sql, "?") = Len(QueryParams(input))
                /\ QueryParams(input) = C16_Values(input)
                /\ (from # 0) <=> (given > 0)
                /\ SelectSeq(where, IsColumn) = C16_Columns(input)
                /\ CountOf(where, "AND") = (IF given > 0 THEN given - 1 ELSE 0)
                /\ CountOf(where, "?") = Len(C16_Values(input))

\* session id, command and a level set with a duplicate, answered
C16_Witness ==
    \E c \in Callers :
        /\ calls[c].op = "logs.query" /\ calls[c].pc = "done"
        /\ calls[c].input.sessionId = Some("s1")
        /\ calls[c].input.command = Some("c1")
        /\ calls[c].input.level = LevelArray(<<"warn", "warn">>)
        /\ Len(Get(calls[c].out).logs) = 2

\* whether entry e carries what row holds in the nine columns logs.query
\* selects, the data column as the mapping it is the JSON text of
C17_SameAsRow(e, row) ==
    /\ e.id = row["id"]
    /\ e.timestamp = row["timestamp"]
    /\ e.level = row["level"]
    /\ e.message = row["message"]
    /\ IF row["data"] = <<>> THEN e.data = <<>>
       ELSE e.data # <<>> /\ JSON_stringify(e.data[1]) = row["data"][1]
    /\ e.sessionId = row["session_id"]
    /\ e.command = row["command"]
    /\ e.context = row["context"]
    /\ e.errorStack = row["error_stack"]

\* C17 as stated: every entry logs.query returns has the ten fields of the
\* data model's LogEntry, createdAt among them, each equal to the column of
\* the stored row with the entry's id.
C17_EntryIsDataModelLogEntry ==
    \A c \in Callers :
        (calls[c].op = "logs.query" /\ calls[c].pc = "done") =>
            LET logs == Get(calls[c].out).logs
                rows == db[TargetPath(calls[c].input)].rows
            IN  \A i \in 1..Len(logs) :
                    /\ DOMAIN logs[i] =
                           {"id", "timestamp", "level", "message", "data",
                            "sessionId", "command", "context", "errorStack",
                            "createdAt"}
                    /\ \E k \in 1..Len(rows) :
                           /\ C17_SameAsRow(logs[i], rows[k])
                           /\ logs[i].createdAt = rows[k]["created_at"]

\* C17, amended: every entry logs.query returns has exactly the nine fields
\* id, timestamp, level, message, data, sessionId, command, context and
\* errorStack, each equal to the column of the stored row with the entry's
\* id (data being the mapping the column is the JSON text of, or null); it
\* has no createdAt.
C17_EntryIsRowWithoutCreatedAt ==
    \A c \in Callers :
        (calls[c].op = "logs.query" /\ calls[c].pc = "done") =>
            LET logs == Get(calls[c].out).logs
                rows == db[TargetPath(calls[c].input)].rows
            IN  \A i \in 1..Len(logs) :
                    /\ DOMAIN logs[i] =
                           {"id", "timestamp", "level", "message", "data",
                            "sessionId", "command", "context", "errorStack"}
                    /\ \E k \in 1..Len(rows) : C17_SameAsRow(logs[i], rows[k])

\* an entry with every optional column set, returned beside one with none
C17_Witness ==
    \E c \in Callers :
        /\ calls[c].op = "logs.query" /\ calls[c].pc = "done"
        /\ LET logs == Get(calls[c].out).logs
           IN  /\ \E i \in 1..Len(logs) :
                      /\ logs[i].sessionId = Some("s1")
                      /\ logs[i].command = Some("c1")
                      /\ logs[i].context = Some("ctx")
                      /\ logs[i].errorStack = Some("stack")
                      /\ logs[i].data # None
               /\ \E i \in 1..Len(logs) :
                      logs[i].sessionId = None /\ logs[i].data = None

\* C18 as stated: every row of every logs table has one of the five levels.
C18_EveryRowHasALogLevel ==
    \A p \in Paths : \A i \in 1..Len(db[p].rows) :
        db[p].rows[i]["level"] \in FiveLevels

\* C18, amended: every row of a logs table that carries the migration's
\* CHECK constraint has one of the five levels, and every row a logs.store
\* adds, to any logs table, has one of the five levels.
C18_CheckedTableAndStoreKeepLevels ==
    [][/\ \A p \in Paths :
             db'[p].levelCheck =>
                 \A i \in 1..Len(db'[p].rows) :
                     db'[p].rows[i]["level"] \in FiveLevels
       /\ \A c \in Callers :
             (calls[c].op = "logs.store" /\ StepOf(c)) =>
                 \A p \in Paths :
                     \A i \in (Len(db[p].rows) + 1)..Len(db'[p].rows) :
                         db'[p].rows[i]["level"] \in FiveLevels]_vars

\* the guard's table holds rows written both ways and has just refused a
\* row through db.execute
C18_Witness ==
    \E c \in Callers :
        /\ calls[c].op = "db.execute" /\ calls[c].pc = "failed"
        /\ calls[c].error = "constraint failed"
        /\ db[DEFAULT_DB_PATH].levelCheck
        /\ {db[DEFAULT_DB_PATH].rows[i]["level"] :
                i \in 1..Len(db[DEFAULT_DB_PATH].rows)}
               = {Some("info"), Some("debug")}

\* the rows of every database
C19_Rows(dbs) == [p \in Paths |-> dbs[p].rows]

\* C19: the step in which a logs.store returns appends one row to its
\* database and leaves the rows before it, and those of every other
\* database, as they were; no other step of a logs.store (its guard, a
\* failure) and no step of a logs.query changes a row; the guard of a
\* logs.query on a database without the table leaves it with the empty
\* table, and the query of an empty table returns the empty list.
C19_OnlyStoreAddsRows ==
    [][\A c \in Callers :
          (StepOf(c) /\ calls[c].op \in {"logs.store", "logs.query"}) =>
              LET p == TargetPath(calls[c].input)
                  n == Len(db[p].rows)
              IN  /\ \A q \in Paths \ {p} : db'[q] = db[q]
                  /\ IF calls[c].op = "logs.store" /\ calls'[c].pc = "done"
                     THEN /\ Len(db'[p].rows) = n + 1
                          /\ SubSeq(db'[p].rows, 1, n) = db[p].rows
                     ELSE C19_Rows(db') = C19_Rows(db)
                  /\ (calls[c].op = "logs.query" /\ calls[c].pc = "ensuring"
                      /\ ~db[p].hasLogs) =>
                         db'[p].hasLogs /\ db'[p].rows = <<>>
                  /\ (calls[c].op = "logs.query" /\ calls'[c].pc = "done"
                      /\ n = 0) =>
                         Get(calls'[c].out).logs = <<>>]_vars

\* a logs.query has returned two rows while the other caller's logs.store
\* was past its guard, and the rows are still the two
C19_Witness ==
    /\ calls[1].op = "logs.query" /\ calls[1].pc = "done"
    /\ Len(Get(calls[1].out).logs) = 2
    /\ calls[2].op = "logs.store" /\ calls[2].pc = "connected"
    /\ Len(db[DEFAULT_DB_PATH].rows) = 2

\* two logs.query inputs that differ at most in the values of sessionId,
\* command, the level members, limit and offset: the same fields given, the
\* same number of levels, the same orderBy and dbPath
C20_SameShape(a, b) ==
    /\ (a.sessionId = <<>>) <=> (b.sessionId = <<>>)
    /\ (a.command = <<>>) <=> (b.command = <<>>)
    /\ (a.level = <<>>) <=> (b.level = <<>>)
    /\ a.level # <<>> => Len(a.level[1].items) = Len(b.level[1].items)
    /\ (a.limit = <<>>) <=> (b.limit = <<>>)
    /\ (a.offset = <<>>) <=> (b.offset = <<>>)
    /\ a.orderBy = b.orderBy
    /\ a.dbPath = b.dbPath

\* C20: the statement a logs.query sends is the statement it would send
\* for any other input of the same shape, and no token of the statement a
\* logs.store sends is a value of its input.
C20_SqlTextIndependentOfValues ==
    \A c \in Callers :
        /\ (calls[c].op = "logs.query" /\ calls[c].pc = "connected") =>
               \A other \in Paging.logsQuery :
                   C20_SameShape(calls[c].input, other) =>
                       QuerySql(calls[c].input) = QuerySql(other)
        /\ (calls[c].op = "logs.store" /\ calls[c].pc = "connected") =>
               \A i \in 1..Len(INSERT_LOG) :
                   /\ INSERT_LOG[i] # calls[c].input.message
                   /\ <<INSERT_LOG[i]>> # calls[c].input.level

=============================================================================
